---- MODULE Spec2Model ----
(***************************************************************************)
(* agent-rules: the build pipeline of src/index.js (buildRules).           *)
(*                                                                         *)
(* buildRules checks the source directory, discovers the rule files,      *)
(* reports and stops on a dry run, and otherwise drives every provider     *)
(* through init -> handle (once per file) -> finish.  Each phase is a      *)
(* Promise.all over providers.map(async p => await p.op()): every call of  *)
(* the phase is issued synchronously, the calls settle in any order, the   *)
(* first rejection rejects buildRules at once, and the calls still in      *)
(* flight keep running.                                                    *)
(*                                                                         *)
(* A string is modelled as a sequence of tokens: a provider id or a word   *)
(* is one token, "," and " " are the separator characters.                 *)
(***************************************************************************)
EXTENDS Integers, Sequences, FiniteSets, TLC

\* ---- bounds -------------------------------------------------------------
MaxFiles == 2
MaxProviders == 2

\* ---- the provider ids of the repository ---------------------------------
ProviderIds == <<"cursor", "cline", "claude", "openai", "replit", "windsurf">>

Min(a, b) == IF a < b THEN a ELSE b

Range(s) == {s[i] : i \in 1..Len(s)}

\* The provider lists a run is started with: pairwise distinct ids.
ProviderLists ==
  {SubSeq(ProviderIds, 1, n) : n \in 0..Min(MaxProviders, Len(ProviderIds))}

\* ---- rule files ---------------------------------------------------------
IncludeKey == "_includeOnlyForProviders"
ExcludeKey == "_excludeForProviders"

\* Front-matter mappings of the rule files (RuleFileInput.frontMatter).
FmPlain == ("description" :> <<"All providers rule">>)
FmInclude == ("description" :> <<"Cursor only rule">>)
               @@ (IncludeKey :> <<"cursor">>)
FmIncludeSpaced == ("title" :> <<"Spaced">>)
               @@ (IncludeKey :> <<" ", "cline", " ", ",", " ", "unknown-provider", ",">>)
FmExclude == ("description" :> <<"No cline rule">>)
               @@ (ExcludeKey :> <<"cline", ",", "unknown-provider">>)
FmBoth == ("description" :> <<"Both">>)
               @@ (IncludeKey :> <<"cursor">>)
               @@ (ExcludeKey :> <<"cursor", ",", "cline">>)
FmEmptyInclude == ("description" :> <<"Empty include">>)
               @@ (IncludeKey :> <<" ", ",">>)
               @@ (ExcludeKey :> <<"cursor">>)

FrontMatters ==
  {FmPlain, FmInclude, FmIncludeSpaced, FmExclude, FmBoth, FmEmptyInclude}

FileNames == <<"a.md", "b.md", "nested/c.md", "d.md">>

\* The files below the input directory that match the pattern: distinct
\* relative names, each with its parsed front-matter and its body.
RuleFiles(n) ==
  {f \in [1..n -> [filename : Range(FileNames), frontMatter : FrontMatters,
                   content : {<<"Content">>}]] :
     \A i \in 1..n : f[i].filename = FileNames[i]}

DirListings ==
  UNION {RuleFiles(n) : n \in 0..Min(MaxFiles, Len(FileNames))}

\* ---- state --------------------------------------------------------------
VARIABLES
  providers,       \* options.providers: the provider list of the run
  inputDirExists,  \* whether SRC_DIR exists
  dryRun,          \* options.dryRun
  dirFiles,        \* the files under SRC_DIR that match filePattern
  files,           \* const files = fastGlob.sync(...)
  pc,              \* position of buildRules
  fileIdx,         \* index of the for-loop over files
  raw,             \* the file read by the current iteration
  pending,         \* provider calls in flight
  settled,         \* provider calls that have settled, with their outcome
  initCalls,       \* per provider: number of init() calls issued
  handleCalls,     \* per provider: the payloads of the handle() calls issued
  finishCalls,     \* per provider: number of finish() calls issued
  readFiles,       \* names of the rule files whose content was read
  outputs,         \* per provider: the file names written to its target
  report,          \* the "Would process" lines of the dry-run plan
  error            \* the error buildRules rejected with

\* The state of buildRules.
buildVars == <<providers, inputDirExists, dryRun, dirFiles, files, pc,
               fileIdx, raw, pending, settled, initCalls, handleCalls,
               finishCalls, readFiles, outputs, report, error>>

\* One provider instance and its output target.
VARIABLES
  provId,          \* the provider's id
  provPc,          \* "new", "inited" or "finished"
  provInits,       \* number of init() calls on the instance
  provCalls,       \* every handle() payload the instance received
  runCalls,        \* the handle() payloads since the last init()
  lastResult,      \* the last lifecycle call and whether it succeeded
  buffer,          \* #buffer of an aggregate provider
  outFile,         \* the file at #outFile of an aggregate provider
  outDir,          \* the directory at #outDir of a directory-style provider
  runOk,           \* no handle() since the last init() was rejected
  prevRun          \* the run the instance made before the last init()

provVars == <<provId, provPc, provInits, provCalls, runCalls, lastResult,
              buffer, outFile, outDir, runOk, prevRun>>

\* loadProviders(options).
VARIABLES
  options,         \* the CLI options
  loadPc,          \* position of loadProviders
  loaded,          \* const providers = []
  customIdx,       \* index of the loop over options.provider
  loadError        \* the error loadProviders rejected with

loadVars == <<options, loadPc, loaded, customIdx, loadError>>

\* cleanFrontMatter(frontMatter).
VARIABLES
  cleanArg,        \* the mapping as it was when it was passed
  cleanObj,        \* the mapping that was passed, as it is now
  cleaned          \* the results: of the call, of the call on its result, ...

cleanVars == <<cleanArg, cleanObj, cleaned>>

\* main: the options of the run.
VARIABLES
  argv,            \* the options given on the command line
  configFile,      \* the content of the file named by --config
  finalOptions,    \* let finalOptions
  cfgPc            \* position of main

cfgVars == <<argv, configFile, finalOptions, cfgPc>>

otherVars == <<provVars, loadVars, cleanVars, cfgVars>>

vars == <<buildVars, provVars, loadVars, cleanVars, cfgVars>>

Active == Range(providers)

AllIds == Range(ProviderIds)

NoError == [kind |-> "none", op |-> "", id |-> "", filename |-> ""]

NoFile == [filename |-> "", frontMatter |-> FmPlain, content |-> <<>>]

Call(op, id, filename) == [op |-> op, id |-> id, filename |-> filename]

Outcome(c, ok) ==
  [op |-> c.op, id |-> c.id, filename |-> c.filename, ok |-> ok]

\* ---- values ------------------------------------------------------------

\* JavaScript values that are not strings, as tokens no string contains.
Undefined == <<"<undefined>">>
Null == <<"<null>">>
True == <<"<true>">>
False == <<"<false>">>
EmptyList == <<"<[]>">>

\* {} : the mapping without keys.
EmptyMap == [k \in {} |-> <<>>]

NoPayload == [filename |-> <<>>, frontMatter |-> EmptyMap, content |-> <<>>]

NoCall == [op |-> "none", ok |-> TRUE, payload |-> NoPayload]

\* No file at #outFile; no directory at #outDir.
AbsentFile == [exists |-> FALSE, content |-> <<>>]
AbsentDir == [exists |-> FALSE, dirs |-> {}, files |-> EmptyMap]

NoOptions ==
  [builtin |-> TRUE, providers |-> <<>>, provider |-> <<>>,
   output |-> Undefined]

\* No earlier run of a provider instance.
NoRun ==
  [calls |-> <<>>, finished |-> FALSE, ok |-> TRUE, outFile |-> AbsentFile,
   outDir |-> AbsentDir]

\* cleanFrontMatter is not called.
CleanIdle ==
  /\ cleanArg = EmptyMap
  /\ cleanObj = EmptyMap
  /\ cleaned = <<>>

\* main is not running.
CfgIdle ==
  /\ argv = EmptyMap
  /\ configFile = EmptyMap
  /\ finalOptions = EmptyMap
  /\ cfgPc = "idle"

\* No provider instance under observation.
ProvIdle ==
  /\ provId = ""
  /\ provPc = "idle"
  /\ provInits = 0
  /\ provCalls = <<>>
  /\ runCalls = <<>>
  /\ lastResult = NoCall
  /\ buffer = <<>>
  /\ outFile = AbsentFile
  /\ outDir = AbsentDir
  /\ runOk = TRUE
  /\ prevRun = NoRun

\* loadProviders is not running.
LoadIdle ==
  /\ options = NoOptions
  /\ loadPc = "idle"
  /\ loaded = <<>>
  /\ customIdx = 0
  /\ loadError = <<>>

Init ==
  /\ ProvIdle
  /\ LoadIdle
  /\ CleanIdle
  /\ CfgIdle
  /\ providers \in ProviderLists
  /\ inputDirExists \in BOOLEAN
  /\ dryRun \in BOOLEAN
  /\ dirFiles \in DirListings
  /\ files = <<>>
  /\ pc = "access"
  /\ fileIdx = 0
  /\ raw = NoFile
  /\ pending = {}
  /\ settled = {}
  /\ initCalls = [p \in AllIds |-> 0]
  /\ handleCalls = [p \in AllIds |-> <<>>]
  /\ finishCalls = [p \in AllIds |-> 0]
  /\ readFiles = {}
  /\ outputs = [p \in AllIds |-> {}]
  /\ report = <<>>
  /\ error = NoError

\* ---- buildRules ---------------------------------------------------------

\* matter(raw): the front-matter mapping and the body of a rule file.
Matter(file) == [data |-> file.frontMatter, content |-> file.content]

\* The payload of p.handle({ filename, frontMatter, content }).
HandlePayload(filename, frontMatter, content) ==
  [filename |-> filename, frontMatter |-> frontMatter, content |-> content]

\* providers.map(async (p) => { await p.op(...) }): the calls one phase
\* issues, one per entry of the provider list.
PhaseCalls(op, provs, filename) ==
  {Call(op, provs[i], filename) : i \in 1..Len(provs)}

\* The dry-run plan: for each provider, one line per discovered file.
DryRunPlan(provs, fs) ==
  [k \in 1..(Len(provs) * Len(fs)) |->
     <<provs[((k - 1) \div Len(fs)) + 1], fs[((k - 1) % Len(fs)) + 1]>>]

FileNamesOf(fs) == [i \in 1..Len(fs) |-> fs[i].filename]

\* Variant of CheckSourceDir: the failure of fs.access is ignored.
CheckSourceDir_Ignore ==
  /\ pc = "access"
  /\ pc' = "glob"
  /\ UNCHANGED <<otherVars, providers, inputDirExists, dryRun, dirFiles, files, fileIdx,
                 raw, pending, settled, initCalls, handleCalls, finishCalls,
                 readFiles, outputs, report, error>>

\* await fs.access(SRC_DIR): a missing directory is a fatal error.
CheckSourceDir ==
  /\ pc = "access"
  /\ IF inputDirExists
       THEN /\ pc' = "glob"
            /\ error' = error
       ELSE /\ pc' = "failed"
            /\ error' = [kind |-> "Source directory not found", op |-> "",
                         id |-> "", filename |-> ""]
  /\ UNCHANGED <<otherVars, providers, inputDirExists, dryRun, dirFiles, files, fileIdx,
                 raw, pending, settled, initCalls, handleCalls, finishCalls,
                 readFiles, outputs, report>>

\* Variant of DiscoverFiles: the dryRun flag is not looked at.
DiscoverFiles_IgnoreDryRun ==
  /\ pc = "glob"
  /\ files' = dirFiles
  /\ pc' = IF Len(dirFiles) = 0 THEN "done" ELSE "init"
  /\ UNCHANGED <<otherVars, providers, inputDirExists, dryRun, dirFiles, fileIdx, raw,
                 pending, settled, initCalls, handleCalls, finishCalls,
                 readFiles, outputs, report, error>>

\* Variant of DiscoverFiles: no early return on an empty file list.
DiscoverFiles_NoEmptyCheck ==
  /\ pc = "glob"
  /\ files' = dirFiles
  /\ pc' = IF dryRun THEN "dryrun" ELSE "init"
  /\ UNCHANGED <<otherVars, providers, inputDirExists, dryRun, dirFiles, fileIdx, raw,
                 pending, settled, initCalls, handleCalls, finishCalls,
                 readFiles, outputs, report, error>>

\* Variant of DiscoverFiles: the files are taken in the opposite order.
DiscoverFiles_Reversed ==
  /\ pc = "glob"
  /\ files' = [i \in 1..Len(dirFiles) |-> dirFiles[Len(dirFiles) + 1 - i]]
  /\ pc' = IF Len(dirFiles) = 0 THEN "done"
           ELSE IF dryRun THEN "dryrun"
           ELSE "init"
  /\ UNCHANGED <<otherVars, providers, inputDirExists, dryRun, dirFiles, fileIdx, raw,
                 pending, settled, initCalls, handleCalls, finishCalls,
                 readFiles, outputs, report, error>>

\* files = fastGlob.sync(filePattern); no file: return; dryRun: report.
DiscoverFiles ==
  /\ pc = "glob"
  /\ files' = dirFiles
  /\ pc' = IF Len(dirFiles) = 0 THEN "done"
           ELSE IF dryRun THEN "dryrun"
           ELSE "init"
  /\ UNCHANGED <<otherVars, providers, inputDirExists, dryRun, dirFiles, fileIdx, raw,
                 pending, settled, initCalls, handleCalls, finishCalls,
                 readFiles, outputs, report, error>>

\* if (dryRun) { print the plan; return; }
DryRunReport ==
  /\ pc = "dryrun"
  /\ report' = DryRunPlan(providers, FileNamesOf(files))
  /\ pc' = "done"
  /\ UNCHANGED <<otherVars, providers, inputDirExists, dryRun, dirFiles, files, fileIdx,
                 raw, pending, settled, initCalls, handleCalls, finishCalls,
                 readFiles, outputs, error>>

\* await Promise.all(providers.map(async (p) => { await p.init(); }))
\* up to the await: every init() is issued.
InitProviders ==
  /\ pc = "init"
  /\ pending' = pending \cup PhaseCalls("init", providers, "")
  /\ initCalls' = [p \in AllIds |->
                     initCalls[p] + Cardinality({i \in 1..Len(providers) :
                                                   providers[i] = p})]
  /\ pc' = "init_wait"
  /\ UNCHANGED <<otherVars, providers, inputDirExists, dryRun, dirFiles, files, fileIdx,
                 raw, settled, handleCalls, finishCalls, readFiles, outputs,
                 report, error>>

\* Variant of Rejects: a rejected call is swallowed (as by allSettled).
Rejects_Swallow(c, ok) ==
  /\ pc' = pc
  /\ error' = error

\* A provider call settles.  The first rejection of the phase buildRules is
\* waiting on rejects buildRules; a call that settles after that changes
\* nothing of buildRules.
Rejects(c, ok) ==
  IF ~ok /\ pc \in {"init_wait", "handle_wait", "finish_wait"}
    THEN /\ pc' = "failed"
         /\ error' = [kind |-> "provider", op |-> c.op, id |-> c.id,
                      filename |-> c.filename]
    ELSE /\ pc' = pc
         /\ error' = error

\* p.init() settles: a directory-style provider has emptied its target.
SettleInit(c, ok) ==
  /\ c \in pending
  /\ c.op = "init"
  /\ pending' = pending \ {c}
  /\ settled' = settled \cup {Outcome(c, ok)}
  /\ outputs' = IF ok THEN [outputs EXCEPT ![c.id] = {}] ELSE outputs
  /\ Rejects(c, ok)
  /\ UNCHANGED <<otherVars, providers, inputDirExists, dryRun, dirFiles, files, fileIdx,
                 raw, initCalls, handleCalls, finishCalls, readFiles, report>>

\* Variant of AwaitInit: the init phase is not awaited.
AwaitInit_NoWait ==
  /\ pc = "init_wait"
  /\ fileIdx' = 1
  /\ pc' = "read"
  /\ UNCHANGED <<otherVars, providers, inputDirExists, dryRun, dirFiles, files, raw,
                 pending, settled, initCalls, handleCalls, finishCalls,
                 readFiles, outputs, report, error>>

\* The Promise.all of the init phase resolves: the for-loop starts.
AwaitInit ==
  /\ pc = "init_wait"
  /\ pending = {}
  /\ fileIdx' = 1
  /\ pc' = "read"
  /\ UNCHANGED <<otherVars, providers, inputDirExists, dryRun, dirFiles, files, raw,
                 pending, settled, initCalls, handleCalls, finishCalls,
                 readFiles, outputs, report, error>>

\* const raw = await fs.readFile(path.join(SRC_DIR, filename), "utf8")
ReadFile(ok) ==
  /\ pc = "read"
  /\ fileIdx <= Len(files)
  /\ readFiles' = readFiles \cup {files[fileIdx].filename}
  /\ IF ok
       THEN /\ raw' = files[fileIdx]
            /\ pc' = "dispatch"
            /\ error' = error
       ELSE /\ raw' = raw
            /\ pc' = "failed"
            /\ error' = [kind |-> "read", op |-> "", id |-> "",
                         filename |-> files[fileIdx].filename]
  /\ UNCHANGED <<otherVars, providers, inputDirExists, dryRun, dirFiles, files, fileIdx,
                 pending, settled, initCalls, handleCalls, finishCalls,
                 outputs, report>>

\* const { data: frontMatter, content } = matter(raw);
\* await Promise.all(providers.map(async (p) => { await p.handle(...) }))
\* up to the await: handle() is issued on every provider of the list.
DispatchHandle ==
  /\ pc = "dispatch"
  /\ LET parsed == Matter(raw)
         payload == HandlePayload(raw.filename, parsed.data, parsed.content)
     IN /\ pending' = pending \cup PhaseCalls("handle", providers, raw.filename)
        /\ handleCalls' =
             [p \in AllIds |->
                IF p \in Active THEN Append(handleCalls[p], payload)
                ELSE handleCalls[p]]
  /\ pc' = "handle_wait"
  /\ UNCHANGED <<otherVars, providers, inputDirExists, dryRun, dirFiles, files, fileIdx,
                 raw, settled, initCalls, finishCalls, readFiles, outputs,
                 report, error>>

\* p.handle() settles: the provider has written the rule to its target.
SettleHandle(c, ok) ==
  /\ c \in pending
  /\ c.op = "handle"
  /\ pending' = pending \ {c}
  /\ settled' = settled \cup {Outcome(c, ok)}
  /\ outputs' = IF ok THEN [outputs EXCEPT ![c.id] = @ \cup {c.filename}]
                ELSE outputs
  /\ Rejects(c, ok)
  /\ UNCHANGED <<otherVars, providers, inputDirExists, dryRun, dirFiles, files, fileIdx,
                 raw, initCalls, handleCalls, finishCalls, readFiles, report>>

\* Variant of AwaitHandle: the loop is left after its first iteration.
AwaitHandle_BreakLoop ==
  /\ pc = "handle_wait"
  /\ pending = {}
  /\ fileIdx' = fileIdx + 1
  /\ pc' = "finish"
  /\ UNCHANGED <<otherVars, providers, inputDirExists, dryRun, dirFiles, files, raw,
                 pending, settled, initCalls, handleCalls, finishCalls,
                 readFiles, outputs, report, error>>

\* Variant of AwaitHandle: buildRules returns at the end of the loop.
AwaitHandle_NoFinish ==
  /\ pc = "handle_wait"
  /\ pending = {}
  /\ fileIdx' = fileIdx + 1
  /\ pc' = IF fileIdx + 1 <= Len(files) THEN "read" ELSE "done"
  /\ UNCHANGED <<otherVars, providers, inputDirExists, dryRun, dirFiles, files, raw,
                 pending, settled, initCalls, handleCalls, finishCalls,
                 readFiles, outputs, report, error>>

\* Variant of AwaitHandle: the handle() calls of the file are not awaited.
AwaitHandle_NoWait ==
  /\ pc = "handle_wait"
  /\ fileIdx' = fileIdx + 1
  /\ pc' = IF fileIdx + 1 <= Len(files) THEN "read" ELSE "finish"
  /\ UNCHANGED <<otherVars, providers, inputDirExists, dryRun, dirFiles, files, raw,
                 pending, settled, initCalls, handleCalls, finishCalls,
                 readFiles, outputs, report, error>>

\* The Promise.all of one file resolves: next file, or leave the loop.
AwaitHandle ==
  /\ pc = "handle_wait"
  /\ pending = {}
  /\ fileIdx' = fileIdx + 1
  /\ pc' = IF fileIdx + 1 <= Len(files) THEN "read" ELSE "finish"
  /\ UNCHANGED <<otherVars, providers, inputDirExists, dryRun, dirFiles, files, raw,
                 pending, settled, initCalls, handleCalls, finishCalls,
                 readFiles, outputs, report, error>>

\* await Promise.all(providers.map(async (p) => { await p.finish(); }))
\* up to the await: every finish() is issued.
FinishProviders ==
  /\ pc = "finish"
  /\ pending' = pending \cup PhaseCalls("finish", providers, "")
  /\ finishCalls' = [p \in AllIds |->
                       finishCalls[p] + Cardinality({i \in 1..Len(providers) :
                                                       providers[i] = p})]
  /\ pc' = "finish_wait"
  /\ UNCHANGED <<otherVars, providers, inputDirExists, dryRun, dirFiles, files, fileIdx,
                 raw, settled, initCalls, handleCalls, readFiles, outputs,
                 report, error>>

\* p.finish() settles.
SettleFinish(c, ok) ==
  /\ c \in pending
  /\ c.op = "finish"
  /\ pending' = pending \ {c}
  /\ settled' = settled \cup {Outcome(c, ok)}
  /\ Rejects(c, ok)
  /\ UNCHANGED <<otherVars, providers, inputDirExists, dryRun, dirFiles, files, fileIdx,
                 raw, initCalls, handleCalls, finishCalls, readFiles, outputs,
                 report>>

\* Variant of AwaitFinish: the promise of the finish phase never resolves.
AwaitFinish_Hang ==
  /\ pc = "finish_wait"
  /\ pending = {}
  /\ pc' = "finish_wait"
  /\ UNCHANGED <<otherVars, providers, inputDirExists, dryRun, dirFiles, files, fileIdx,
                 raw, pending, settled, initCalls, handleCalls, finishCalls,
                 readFiles, outputs, report, error>>

\* The Promise.all of the finish phase resolves: buildRules returns.
AwaitFinish ==
  /\ pc = "finish_wait"
  /\ pending = {}
  /\ pc' = "done"
  /\ UNCHANGED <<otherVars, providers, inputDirExists, dryRun, dirFiles, files, fileIdx,
                 raw, pending, settled, initCalls, handleCalls, finishCalls,
                 readFiles, outputs, report, error>>

Next ==
  \/ CheckSourceDir
  \/ DiscoverFiles
  \/ DryRunReport
  \/ InitProviders
  \/ \E c \in pending, ok \in BOOLEAN : SettleInit(c, ok)
  \/ AwaitInit
  \/ \E ok \in BOOLEAN : ReadFile(ok)
  \/ DispatchHandle
  \/ \E c \in pending, ok \in BOOLEAN : SettleHandle(c, ok)
  \/ AwaitHandle
  \/ FinishProviders
  \/ \E c \in pending, ok \in BOOLEAN : SettleFinish(c, ok)
  \/ AwaitFinish

Spec == Init /\ [][Next]_vars

\* Every call and every read that is started settles, and the event loop
\* runs every continuation that is ready: a step that can be taken is taken.
FairSpec == Spec /\ WF_vars(Next)

\* ---- type invariant -----------------------------------------------------
TypeOK ==
  /\ providers \in ProviderLists
  /\ pc \in {"access", "glob", "dryrun", "init", "init_wait", "read",
             "dispatch", "handle_wait", "finish", "finish_wait", "done",
             "failed"}
  /\ fileIdx \in 0..(Len(files) + 1)
  /\ \A c \in pending : c.id \in Active

\* ---- routing directives -------------------------------------------------

\* The segments of a string between its commas.
RECURSIVE SplitComma(_)
SplitComma(str) ==
  IF \E i \in 1..Len(str) : str[i] = ","
    THEN LET i == CHOOSE j \in 1..Len(str) :
                    /\ str[j] = ","
                    /\ \A k \in 1..(j - 1) : str[k] # ","
         IN <<SubSeq(str, 1, i - 1)>> \o SplitComma(SubSeq(str, i + 1, Len(str)))
    ELSE <<str>>

\* A string without its leading and trailing blanks.
RECURSIVE Trim(_)
Trim(str) ==
  IF str = <<>> THEN str
  ELSE IF Head(str) = " " THEN Trim(Tail(str))
  ELSE IF str[Len(str)] = " " THEN Trim(SubSeq(str, 1, Len(str) - 1))
  ELSE str

\* A directive value as a list of ids: comma-separated, entries trimmed,
\* empty entries dropped.
ParseProviderList(str) ==
  {Trim(seg) : seg \in Range(SplitComma(str))} \ {<<>>}

IncludeList(fm) ==
  IF IncludeKey \in DOMAIN fm THEN ParseProviderList(fm[IncludeKey]) ELSE {}

ExcludeList(fm) ==
  IF ExcludeKey \in DOMAIN fm THEN ParseProviderList(fm[ExcludeKey]) ELSE {}

\* ---- observations used by the properties --------------------------------

\* The handle() payloads provider p was issued for the file named fn.
HandlePayloads(p, fn) ==
  {k \in 1..Len(handleCalls[p]) : handleCalls[p][k].filename = fn}

\* The providers that were issued handle() for the file named fn.
HandledBy(fn) == {p \in AllIds : HandlePayloads(p, fn) # {}}

\* The handle() calls of file i have been issued.
Dispatched(i) ==
  \/ i < fileIdx
  \/ i = fileIdx /\ pc = "handle_wait"

NoLifecycleCall ==
  /\ \A p \in AllIds :
       initCalls[p] = 0 /\ handleCalls[p] = <<>> /\ finishCalls[p] = 0
  /\ pending = {}
  /\ settled = {}

NoOutput == \A p \in AllIds : outputs[p] = {}

\* ---- properties ---------------------------------------------------------

\* C1: every provider's init() has completed before any handle() is
\* issued, and every handle() of every file has completed before any
\* finish() is issued.
C1_PhaseOrder ==
  /\ (\E p \in AllIds : handleCalls[p] # <<>>) =>
       /\ \A q \in Active : Outcome(Call("init", q, ""), TRUE) \in settled
       /\ \A c \in pending : c.op # "init"
  /\ (\E p \in AllIds : finishCalls[p] > 0) =>
       /\ fileIdx > Len(files)
       /\ \A c \in pending : c.op # "handle"
       /\ \A q \in AllIds : \A k \in 1..Len(handleCalls[q]) :
            Outcome(Call("handle", q, handleCalls[q][k].filename), TRUE)
              \in settled

C1_Witness ==
  /\ pc = "finish_wait"
  /\ ~dryRun
  /\ Len(files) >= 2
  /\ Len(providers) >= 2
  /\ \E c \in pending : c.op = "finish"

\* C2: on a dry run no provider's init, handle or finish is invoked, no
\* rule file is read and nothing is written.
C2_DryRunInert ==
  dryRun => /\ NoLifecycleCall
            /\ readFiles = {}
            /\ NoOutput

C2_Witness ==
  /\ dryRun
  /\ pc = "done"
  /\ Len(files) >= 1
  /\ Len(report) = Len(providers) * Len(files)
  /\ Len(report) >= 2

\* C3: a file with a non-empty _includeOnlyForProviders list is handled by
\* exactly the active providers named in the list, whatever
\* _excludeForProviders says.
C3_IncludeOnlyRouting ==
  \A i \in 1..Len(files) :
    (Dispatched(i) /\ IncludeList(files[i].frontMatter) # {}) =>
      HandledBy(files[i].filename) =
        {p \in Active : <<p>> \in IncludeList(files[i].frontMatter)}

\* C4: a file with only a non-empty _excludeForProviders list is handled by
\* exactly the active providers not named in the list.
C4_ExcludeRouting ==
  \A i \in 1..Len(files) :
    (/\ Dispatched(i)
     /\ IncludeKey \notin DOMAIN files[i].frontMatter
     /\ ExcludeList(files[i].frontMatter) # {}) =>
      HandledBy(files[i].filename) =
        {p \in Active : <<p>> \notin ExcludeList(files[i].frontMatter)}

\* C5: the front-matter of every handle() payload has neither routing
\* directive and every other key of the rule's front-matter unchanged.
C5_DirectivesStripped ==
  \A p \in AllIds : \A k \in 1..Len(handleCalls[p]) :
    \A i \in 1..Len(files) :
      files[i].filename = handleCalls[p][k].filename =>
        LET given == handleCalls[p][k].frontMatter
            fm == files[i].frontMatter
        IN /\ IncludeKey \notin DOMAIN given
           /\ ExcludeKey \notin DOMAIN given
           /\ DOMAIN given = DOMAIN fm \ {IncludeKey, ExcludeKey}
           /\ \A key \in DOMAIN given : given[key] = fm[key]

\* C6: a run that completes over at least one file has called init() and
\* finish() exactly once on every provider, and handle() exactly once per
\* provider for every file without routing directive.
C6_CompleteRun ==
  (pc = "done" /\ ~dryRun /\ Len(files) >= 1) =>
    \A p \in Active :
      /\ initCalls[p] = 1
      /\ finishCalls[p] = 1
      /\ \A i \in 1..Len(files) :
           (/\ IncludeKey \notin DOMAIN files[i].frontMatter
            /\ ExcludeKey \notin DOMAIN files[i].frontMatter) =>
             Cardinality(HandlePayloads(p, files[i].filename)) = 1

C6_Witness ==
  /\ pc = "done"
  /\ ~dryRun
  /\ Len(providers) >= 2
  /\ \E i \in 1..Len(files) : files[i].frontMatter = FmPlain
  /\ \A p \in Active : initCalls[p] = 1 /\ finishCalls[p] = 1

C8_FailFast ==
  [][/\ (\E o \in settled' : ~o.ok /\ o.op \in {"init", "handle"}) =>
          /\ pc' = "failed"
          /\ error'.kind = "provider"
          /\ error'.op \in {"init", "handle"}
          /\ Outcome(Call(error'.op, error'.id, error'.filename), FALSE)
               \in settled'
          /\ \A p \in AllIds : finishCalls'[p] = 0
     /\ pc = "failed" =>
          /\ pc' = "failed"
          /\ error' = error
          /\ initCalls' = initCalls
          /\ handleCalls' = handleCalls
          /\ finishCalls' = finishCalls
          /\ pending' \subseteq pending
          /\ \A p \in AllIds : outputs[p] \subseteq outputs'[p]
     /\ \A p \in AllIds :
          /\ initCalls'[p] <= 1
          /\ \A i \in 1..Len(files') :
               Cardinality({k \in 1..Len(handleCalls'[p]) :
                  handleCalls'[p][k].filename = files'[i].filename}) <= 1
    ]_vars

C8_Witness ==
  /\ pc = "failed"
  /\ error.kind = "provider"
  /\ error.op = "handle"
  /\ fileIdx = 2
  /\ \E p \in Active : outputs[p] # {}
  /\ \E p \in Active : Len(handleCalls[p]) = 2

\* C9: when the input directory does not exist, buildRules fails with
\* 'Source directory not found' before any lifecycle call, discovery, read
\* or output.
C9_MissingSourceDir ==
  ~inputDirExists =>
    /\ pc \in {"access", "failed"}
    /\ pc = "failed" => error.kind = "Source directory not found"
    /\ NoLifecycleCall
    /\ files = <<>>
    /\ readFiles = {}
    /\ NoOutput

C9_Witness ==
  /\ ~inputDirExists
  /\ pc = "failed"
  /\ error.kind = "Source directory not found"
  /\ Len(dirFiles) >= 1
  /\ Len(providers) >= 1
  /\ ~dryRun

\* C10: when discovery finds no file, buildRules completes successfully
\* and calls no provider's init, handle or finish, dry run or not.
C10_NoFiles ==
  (inputDirExists /\ Len(dirFiles) = 0 /\ pc \notin {"access", "glob"}) =>
    /\ pc = "done"
    /\ error = NoError
    /\ files = <<>>
    /\ NoLifecycleCall
    /\ report = <<>>

C10_Witness ==
  /\ inputDirExists
  /\ Len(dirFiles) = 0
  /\ pc = "done"
  /\ ~dryRun
  /\ Len(providers) >= 1

\* ========================================================================
\* The providers (src/providers/*.js): one instance driven through
\* init -> handle* -> finish, with its output target.
\* ========================================================================

\* ---- bounds -------------------------------------------------------------
MaxHandles == 2
MaxInits == 2

\* buildRules is not running.
BuildIdle ==
  /\ providers = <<>>
  /\ inputDirExists = FALSE
  /\ dryRun = FALSE
  /\ dirFiles = <<>>
  /\ files = <<>>
  /\ pc = "idle"
  /\ fileIdx = 0
  /\ raw = NoFile
  /\ pending = {}
  /\ settled = {}
  /\ initCalls = [p \in AllIds |-> 0]
  /\ handleCalls = [p \in AllIds |-> <<>>]
  /\ finishCalls = [p \in AllIds |-> 0]
  /\ readFiles = {}
  /\ outputs = [p \in AllIds |-> {}]
  /\ report = <<>>
  /\ error = NoError

\* ---- strings ------------------------------------------------------------
Whitespace == {" ", "\n"}

\* String.prototype.trimStart
RECURSIVE StrTrimStart(_)
StrTrimStart(str) ==
  IF str # <<>> /\ Head(str) \in Whitespace
    THEN StrTrimStart(Tail(str))
    ELSE str

\* String.prototype.trimEnd
RECURSIVE StrTrimEnd(_)
StrTrimEnd(str) ==
  IF str # <<>> /\ str[Len(str)] \in Whitespace
    THEN StrTrimEnd(SubSeq(str, 1, Len(str) - 1))
    ELSE str

\* String.prototype.trim
StrTrim(str) == StrTrimEnd(StrTrimStart(str))

\* ---- front-matter -------------------------------------------------------

\* v ?? other
IsNullish(m, key) == key \notin DOMAIN m \/ m[key] = Null

\* a value used as a condition
IsTruthy(m, key) ==
  /\ ~IsNullish(m, key)
  /\ m[key] \notin {False, <<>>}

\* Variant of MergeBlock: the provider's block is not looked at.
MergeBlock_TopOnly(frontMatter, id) == frontMatter

\* { ...frontMatter, ...(frontMatter[id] ?? {}) }; a block that is given is
\* a mapping.
MergeBlock(frontMatter, id) ==
  IF id \in DOMAIN frontMatter
    THEN frontMatter[id] @@ frontMatter
    ELSE frontMatter

\* ---- the kinds of provider ----------------------------------------------
AggregateIds == {"claude", "openai", "replit"}
DirectoryIds == {"cursor", "cline", "windsurf"}
MirrorIds == {"cline", "windsurf"}

\* ---- inputs -------------------------------------------------------------
TitleT == ("title" :> <<"T">>)
DescD == ("description" :> <<"D">>)

\* Front-matter of the rules given to the aggregate provider id.
AggFrontMatters(id) ==
  { EmptyMap,
    DescD,
    TitleT @@ DescD,
    DescD @@ (id :> ("title" :> <<"BT">>)),
    TitleT @@ (id :> ("title" :> <<"BT">>)),
    DescD @@ (id :> ("description" :> <<"BD">>)),
    TitleT @@ DescD @@ (id :> ("title" :> Null)),
    ("title" :> Null) @@ DescD,
    TitleT @@ (id :> EmptyMap) }

\* Front-matter of the rules given to the cursor provider.
CursorFrontMatters ==
  { EmptyMap,
    DescD,
    DescD @@ ("alwaysApply" :> True),
    DescD @@ ("alwaysApply" :> False),
    ("alwaysApply" :> True) @@ ("cursor" :> ("retrieval-strategy" :> <<"never">>)),
    ("alwaysApply" :> False) @@ ("cursor" :> ("retrieval-strategy" :> <<"always">>)),
    ("alwaysApply" :> False) @@ ("cursor" :> ("alwaysApply" :> True)),
    ("alwaysApply" :> True) @@ ("cursor" :> ("alwaysApply" :> False)),
    ("alwaysApply" :> True) @@ ("retrieval-strategy" :> <<"never">>),
    ("retrieval-strategy" :> <<"never">>)
      @@ ("cursor" :> ("retrieval-strategy" :> <<"always">>)),
    DescD @@ ("globs" :> <<"*.ts">>) @@ ("cursor" :> ("description" :> <<"BD">>)),
    ("description" :> Null) @@ ("alwaysApply" :> Null) @@ ("globs" :> Null) }

\* Front-matter of the rules given to cline and windsurf.
MirrorFrontMatters == {EmptyMap, DescD @@ ("alwaysApply" :> True)}

\* Relative file names, as fastGlob returns them for *.md and **/*.md.
ProvFileNames == {<<"a.md">>, <<"nested", "/", "c.md">>}

Bodies ==
  { <<"Body">>,
    <<" ", "\n", "Line1", "\n", "\n", "Line2", " ", "\n">>,
    <<>> }

\* The handle() payloads of provider id.
Payloads(id) ==
  IF id \in AggregateIds
    THEN {p \in [filename : {<<"a.md">>}, frontMatter : AggFrontMatters(id),
                 content : Bodies] :
            p.content = <<"Body">> \/ DOMAIN p.frontMatter = {"description"}}
  ELSE IF id = "cursor"
    THEN {p \in [filename : ProvFileNames, frontMatter : CursorFrontMatters,
                 content : {<<"Body">>}] :
            p.filename = <<"a.md">> \/ DOMAIN p.frontMatter = {}}
  ELSE {p \in [filename : ProvFileNames, frontMatter : MirrorFrontMatters,
               content : Bodies] :
          \/ DOMAIN p.frontMatter = {}
          \/ p.filename = <<"a.md">> /\ p.content = <<"Body">>}

\* A document on disk: its front-matter block and its text.
Doc(data, body) == [data |-> data, body |-> body]

OldDoc == Doc(EmptyMap, <<"Old content">>)

\* What #outFile holds before the run.
StaleFiles == {AbsentFile, [exists |-> TRUE, content |-> <<"Old content">>]}

\* What #outDir holds before the run.
StaleDirs ==
  { AbsentDir,
    [exists |-> TRUE, dirs |-> {}, files |-> EmptyMap],
    [exists |-> TRUE, dirs |-> {}, files |-> (<<"old.md">> :> OldDoc)],
    [exists |-> TRUE, dirs |-> {<<"nested">>},
     files |-> (<<"old.md">> :> OldDoc)
                 @@ (<<"nested", "/", "c.md">> :> OldDoc)] }

\* ---- aggregate providers (claude, openai, replit) -----------------------

\* Variant of AggTitle: the description is preferred to the title.
AggTitle_DescriptionFirst(yaml) ==
  IF ~IsNullish(yaml, "description") THEN yaml["description"]
  ELSE IF ~IsNullish(yaml, "title") THEN yaml["title"]
  ELSE <<"Untitled">>

\* yaml.title ?? yaml.description ?? "Untitled"
AggTitle(yaml) ==
  IF ~IsNullish(yaml, "title") THEN yaml["title"]
  ELSE IF ~IsNullish(yaml, "description") THEN yaml["description"]
  ELSE <<"Untitled">>

\* const header = `## ${...}` over the merged front-matter
AggHeader(frontMatter, id) ==
  <<"## ">> \o AggTitle(MergeBlock(frontMatter, id))

\* `\n\n${header}\n\n${content.trim()}\n`
AggSection(header, content) ==
  <<"\n", "\n">> \o header \o <<"\n", "\n">> \o StrTrim(content) \o <<"\n">>

\* this.#buffer.trimStart() + "\n"
AggOutput(buf) == StrTrimStart(buf) \o <<"\n">>

\* init(): fs.rm(this.#outFile, { force: true }); #buffer is left as it is.
AggInit ==
  /\ provId \in AggregateIds
  /\ provPc # "idle"
  /\ provInits < MaxInits
  /\ outFile' = AbsentFile
  /\ provPc' = "inited"
  /\ provInits' = provInits + 1
  /\ runCalls' = <<>>
  /\ runOk' = TRUE
  /\ prevRun' = [calls |-> runCalls, finished |-> provPc = "finished",
                 ok |-> runOk, outFile |-> outFile, outDir |-> outDir]
  /\ lastResult' = [op |-> "init", ok |-> TRUE, payload |-> NoPayload]
  /\ UNCHANGED <<buildVars, loadVars, cleanVars, cfgVars, provId, provCalls, buffer, outDir>>

\* handle({ frontMatter, content }): one section is added to #buffer.
AggHandle(payload) ==
  /\ provId \in AggregateIds
  /\ provPc = "inited"
  /\ Len(provCalls) < MaxHandles
  /\ buffer' = buffer \o AggSection(AggHeader(payload.frontMatter, provId),
                                    payload.content)
  /\ provCalls' = Append(provCalls, payload)
  /\ runCalls' = Append(runCalls, payload)
  /\ lastResult' = [op |-> "handle", ok |-> TRUE, payload |-> payload]
  /\ UNCHANGED <<buildVars, loadVars, cleanVars, cfgVars, runOk, prevRun,
                 provId, provPc, provInits, outFile,
                 outDir>>

\* finish(): fs.writeFile(this.#outFile, ...)
AggFinish ==
  /\ provId \in AggregateIds
  /\ provPc = "inited"
  /\ outFile' = [exists |-> TRUE, content |-> AggOutput(buffer)]
  /\ provPc' = "finished"
  /\ lastResult' = [op |-> "finish", ok |-> TRUE, payload |-> NoPayload]
  /\ UNCHANGED <<buildVars, loadVars, cleanVars, cfgVars, runOk, prevRun,
                 provId, provInits, provCalls, runCalls,
                 buffer, outDir>>

\* ---- directory-style providers (cursor, cline, windsurf) ----------------

\* Variant of ClearDir: only the files directly in the directory are removed.
ClearDir_TopLevelFiles(dir) ==
  IF dir.exists
    THEN [dir EXCEPT !.files = [f \in {g \in DOMAIN dir.files : Len(g) > 1}
                                  |-> dir.files[f]]]
    ELSE dir

\* clearDir(dir): every entry is removed recursively; ENOENT is ignored.
ClearDir(dir) ==
  IF dir.exists
    THEN [exists |-> TRUE, dirs |-> {}, files |-> EmptyMap]
    ELSE dir

\* ensureDir(dir): fs.mkdir(dir, { recursive: true })
EnsureDir(dir) == [dir EXCEPT !.exists = TRUE]

\* The directory part of a relative file name.
ParentDir(filename) ==
  IF Len(filename) <= 1 THEN <<>>
  ELSE SubSeq(filename, 1, Len(filename) - 2)

\* fs.writeFile creates the file but none of its parent directories.
CanWrite(dir, filename) ==
  /\ dir.exists
  /\ ParentDir(filename) \in dir.dirs \cup {<<>>}

\* fs.writeFile(outFile, doc)
WriteFile(dir, filename, doc) ==
  [dir EXCEPT !.files = (filename :> doc) @@ @]

\* filename.replace(/\.md$/, ".mdc"), on the last segment
MdToMdc(segment) ==
  CASE segment = "a.md" -> "a.mdc"
    [] segment = "c.md" -> "c.mdc"
    [] OTHER -> segment

CursorOutName(filename) ==
  [filename EXCEPT ![Len(filename)] = MdToMdc(@)]

\* path.parse(filename).name
PathName(filename) ==
  CASE filename[Len(filename)] = "a.md" -> <<"a">>
    [] filename[Len(filename)] = "c.md" -> <<"c">>
    [] OTHER -> <<filename[Len(filename)]>>

\* Variant of RetrievalStrategy: nothing is inherited from alwaysApply.
RetrievalStrategy_NoInherit(yaml) ==
  IF ~IsNullish(yaml, "retrieval-strategy") THEN yaml["retrieval-strategy"]
  ELSE Undefined

\* Variant of RetrievalStrategy: alwaysApply is looked at first.
RetrievalStrategy_AlwaysFirst(yaml) ==
  IF IsTruthy(yaml, "alwaysApply") THEN <<"always">>
  ELSE IF ~IsNullish(yaml, "retrieval-strategy")
    THEN yaml["retrieval-strategy"]
  ELSE Undefined

\* yaml["retrieval-strategy"] ?? (yaml.alwaysApply ? "always" : undefined)
RetrievalStrategy(yaml) ==
  IF ~IsNullish(yaml, "retrieval-strategy") THEN yaml["retrieval-strategy"]
  ELSE IF IsTruthy(yaml, "alwaysApply") THEN <<"always">>
  ELSE Undefined

\* const outputFrontMatter = { description, globs, alwaysApply, ...yaml },
\* then retrieval-strategy when it is defined.
OutputFrontMatter(filename, yaml) ==
  LET defaults ==
        ("description" :> (IF IsNullish(yaml, "description")
                             THEN PathName(filename)
                             ELSE yaml["description"]))
        @@ ("globs" :> (IF IsNullish(yaml, "globs")
                          THEN EmptyList ELSE yaml["globs"]))
        @@ ("alwaysApply" :> (IF IsNullish(yaml, "alwaysApply")
                                THEN False ELSE yaml["alwaysApply"]))
      spread == yaml @@ defaults
      retrievalStrategy == RetrievalStrategy(yaml)
  IN IF retrievalStrategy # Undefined
       THEN ("retrieval-strategy" :> retrievalStrategy) @@ spread
       ELSE spread

\* matter.stringify(content + "\n", outputFrontMatter)
CursorDoc(payload) ==
  Doc(OutputFrontMatter(payload.filename,
                        MergeBlock(payload.frontMatter, "cursor")),
      payload.content \o <<"\n">>)

\* content.trimStart() + "\n"
MirrorDoc(payload) == Doc(EmptyMap, StrTrimStart(payload.content) \o <<"\n">>)

\* init(): clearDir(this.#outDir); ensureDir(this.#outDir)
DirInit ==
  /\ provId \in DirectoryIds
  /\ provPc # "idle"
  /\ provInits < MaxInits
  /\ outDir' = EnsureDir(ClearDir(outDir))
  /\ provPc' = "inited"
  /\ provInits' = provInits + 1
  /\ runCalls' = <<>>
  /\ runOk' = TRUE
  /\ prevRun' = [calls |-> runCalls, finished |-> provPc = "finished",
                 ok |-> runOk, outFile |-> outFile, outDir |-> outDir]
  /\ lastResult' = [op |-> "init", ok |-> TRUE, payload |-> NoPayload]
  /\ UNCHANGED <<buildVars, loadVars, cleanVars, cfgVars, provId, provCalls, buffer, outFile>>

\* The write of handle(): it fails when the parent directory is missing.
DirWrite(payload, filename, doc) ==
  /\ provPc = "inited"
  /\ Len(provCalls) < MaxHandles
  /\ IF CanWrite(outDir, filename)
       THEN /\ outDir' = WriteFile(outDir, filename, doc)
            /\ lastResult' = [op |-> "handle", ok |-> TRUE,
                              payload |-> payload]
       ELSE /\ outDir' = outDir
            /\ lastResult' = [op |-> "handle", ok |-> FALSE,
                              payload |-> payload]
  /\ provCalls' = Append(provCalls, payload)
  /\ runCalls' = Append(runCalls, payload)
  /\ runOk' = (runOk /\ CanWrite(outDir, filename))
  /\ UNCHANGED <<buildVars, loadVars, cleanVars, cfgVars, prevRun,
                 provId, provPc, provInits, buffer,
                 outFile>>

\* CursorProvider.handle
CursorHandle(payload) ==
  /\ provId = "cursor"
  /\ DirWrite(payload, CursorOutName(payload.filename), CursorDoc(payload))

\* ClineProvider.handle, WindsurfProvider.handle
MirrorHandle(payload) ==
  /\ provId \in MirrorIds
  /\ DirWrite(payload, payload.filename, MirrorDoc(payload))

\* finish(): nothing to do
DirFinish ==
  /\ provId \in DirectoryIds
  /\ provPc = "inited"
  /\ provPc' = "finished"
  /\ lastResult' = [op |-> "finish", ok |-> TRUE, payload |-> NoPayload]
  /\ UNCHANGED <<buildVars, loadVars, cleanVars, cfgVars, runOk, prevRun,
                 provId, provInits, provCalls, runCalls,
                 buffer, outFile, outDir>>

\* A new provider instance; its target holds what an earlier run left.
ProviderInit ==
  /\ BuildIdle
  /\ LoadIdle
  /\ CleanIdle
  /\ CfgIdle
  /\ runOk = TRUE
  /\ prevRun = NoRun
  /\ provId \in AllIds
  /\ provPc = "new"
  /\ provInits = 0
  /\ provCalls = <<>>
  /\ runCalls = <<>>
  /\ lastResult = NoCall
  /\ buffer = <<>>
  /\ outFile \in (IF provId \in AggregateIds THEN StaleFiles ELSE {AbsentFile})
  /\ outDir \in (IF provId \in DirectoryIds THEN StaleDirs ELSE {AbsentDir})

ProviderNext ==
  \/ AggInit
  \/ \E payload \in Payloads(provId) : AggHandle(payload)
  \/ AggFinish
  \/ DirInit
  \/ \E payload \in Payloads(provId) : CursorHandle(payload)
  \/ \E payload \in Payloads(provId) : MirrorHandle(payload)
  \/ DirFinish

ProviderSpec == ProviderInit /\ [][ProviderNext]_vars

\* ---------------------------------------------------------------------------
\* Observations on the output of a provider.
\* ---------------------------------------------------------------------------

\* The lines of a text: text.split("\n")
RECURSIVE SplitLines(_)
SplitLines(s) ==
  IF s = <<>> THEN << <<>> >>
  ELSE LET rest == SplitLines(Tail(s))
       IN IF Head(s) = "\n"
            THEN << <<>> >> \o rest
            ELSE << <<Head(s)>> \o Head(rest) >> \o Tail(rest)

\* The lines of a body; an empty body has none.
BodyLines(body) == IF body = <<>> THEN <<>> ELSE SplitLines(body)

\* A line of the form '## <title>'.
IsHeader(line) == line # <<>> /\ line[1] = "## "

\* The positions of the section headers among the lines.
HeaderLines(lines) == {i \in 1..Len(lines) : IsHeader(lines[i])}

\* The position of the k-th section header.
NthHeader(lines, k) ==
  CHOOSE i \in HeaderLines(lines) :
    Cardinality({j \in HeaderLines(lines) : j < i}) = k - 1

\* finish() of an aggregate provider has returned.
AggFinished == provId \in AggregateIds /\ provPc = "finished"

\* ---------------------------------------------------------------------------
\* Properties of the providers.
\* ---------------------------------------------------------------------------

\* C11: after init(), N handle() calls and finish(), the output file of an
\* aggregate provider holds exactly N section headers '## <title>', in the
\* order of the calls, each followed by a blank line and then the trimmed
\* body of its call.
C11_Sections ==
  AggFinished =>
    LET lines == SplitLines(outFile.content)
        N == Len(runCalls)
    IN /\ outFile.exists
       /\ Cardinality(HeaderLines(lines)) = N
       /\ \A k \in 1..N :
            LET h == NthHeader(lines, k)
                body == BodyLines(StrTrim(runCalls[k].content))
            IN /\ h + 1 + Len(body) <= Len(lines)
               /\ lines[h + 1] = <<>>
               /\ SubSeq(lines, h + 2, h + 1 + Len(body)) = body

\* The number of "\n" characters at the end of a text.
RECURSIVE TrailingNewlines(_)
TrailingNewlines(s) ==
  IF s # <<>> /\ s[Len(s)] = "\n"
    THEN 1 + TrailingNewlines(SubSeq(s, 1, Len(s) - 1))
    ELSE 0

\* C12: after N handle() calls and finish(), the output file of an aggregate
\* provider ends with exactly one newline character; for N = 0 the file is
\* exactly one newline.
C12_OneTrailingNewline ==
  AggFinished =>
    /\ outFile.exists
    /\ TrailingNewlines(outFile.content) = 1
    /\ Len(runCalls) = 0 => outFile.content = <<"\n">>

\* The last section header in a text.
LastHeader(text) ==
  LET lines == SplitLines(text)
      last == CHOOSE i \in HeaderLines(lines) :
                \A j \in HeaderLines(lines) : j <= i
  IN lines[last]

\* handle() of an aggregate provider has just returned.
AggHandled == provId \in AggregateIds /\ lastResult.op = "handle"

\* A key is present in a mapping: it is given with a value other than null.
Present(m, key) == key \in DOMAIN m /\ m[key] # Null

\* The block of the front-matter named by the provider's id.
BlockOf(frontMatter, id) ==
  IF id \in DOMAIN frontMatter THEN frontMatter[id] ELSE EmptyMap

\* The value in effect for a key: the one of the provider's block when the
\* block has the key, the top-level one otherwise.
Effective(frontMatter, id, key) ==
  IF key \in DOMAIN BlockOf(frontMatter, id) THEN BlockOf(frontMatter, id)[key]
  ELSE IF key \in DOMAIN frontMatter THEN frontMatter[key]
  ELSE Undefined

\* C13 as stated: the heading is '## ' followed by the first one present of
\* the title in the provider's block, the top-level title, the top-level
\* description, and otherwise 'Untitled'.
C13_HeadingPriority ==
  AggHandled =>
    LET fm == lastResult.payload.frontMatter
        block == BlockOf(fm, provId)
    IN LastHeader(buffer) =
         <<"## ">> \o (IF Present(block, "title") THEN block["title"]
                       ELSE IF Present(fm, "title") THEN fm["title"]
                       ELSE IF Present(fm, "description") THEN fm["description"]
                       ELSE <<"Untitled">>)

\* C13, amended: the heading is '## ' followed by the title in effect when it
\* is not null, else the description in effect when it is not null, else
\* 'Untitled'; the value in effect for a key is the one of the provider's
\* block when the block has the key, the top-level one otherwise.
C13_HeadingEffective ==
  AggHandled =>
    LET fm == lastResult.payload.frontMatter
        title == Effective(fm, provId, "title")
        description == Effective(fm, provId, "description")
    IN LastHeader(buffer) =
         <<"## ">> \o (IF title \notin {Null, Undefined} THEN title
                       ELSE IF description \notin {Null, Undefined}
                         THEN description
                       ELSE <<"Untitled">>)

\* A rule whose block overrides the description has been given its heading.
C13_Witness ==
  /\ AggHandled
  /\ "title" \notin DOMAIN lastResult.payload.frontMatter
  /\ "description" \in DOMAIN lastResult.payload.frontMatter
  /\ "description" \in DOMAIN BlockOf(lastResult.payload.frontMatter, provId)
  /\ LastHeader(buffer) = <<"## ", "BD">>

\* init() of a directory-style provider has just returned.
DirInited == provId \in DirectoryIds /\ lastResult.op = "init"

\* C14: after init() of a directory-style provider the output directory
\* exists and has no entries, whatever it held before and also when it did
\* not exist; a second init() leaves the same state.
C14_InitEmptiesDir ==
  DirInited =>
    /\ lastResult.ok
    /\ outDir.exists
    /\ outDir.dirs = {}
    /\ DOMAIN outDir.files = {}

\* A second init() has returned on a provider that had handled rules.
C14_Witness ==
  /\ DirInited
  /\ provInits = 2
  /\ provCalls # <<>>
  /\ outDir = [exists |-> TRUE, dirs |-> {}, files |-> EmptyMap]

\* handle() of the cursor provider has just written its file.
CursorHandled ==
  /\ provId = "cursor"
  /\ lastResult.op = "handle"
  /\ lastResult.ok

\* The front-matter of the file written by the last handle() of cursor.
Written == outDir.files[CursorOutName(lastResult.payload.filename)].data

\* The rule sets the key neither at the top level nor in the cursor block.
NotGiven(frontMatter, key) ==
  /\ key \notin DOMAIN frontMatter
  /\ key \notin DOMAIN BlockOf(frontMatter, "cursor")

\* C15 as stated: without an explicit retrieval-strategy, the written
\* front-matter has retrieval-strategy 'always' if the top-level alwaysApply
\* is true and no retrieval-strategy if it is false or absent.
C15_InheritTopLevel ==
  (CursorHandled /\ NotGiven(lastResult.payload.frontMatter, "retrieval-strategy"))
    => LET fm == lastResult.payload.frontMatter
       IN IF "alwaysApply" \in DOMAIN fm /\ fm["alwaysApply"] = True
            THEN /\ "retrieval-strategy" \in DOMAIN Written
                 /\ Written["retrieval-strategy"] = <<"always">>
            ELSE "retrieval-strategy" \notin DOMAIN Written

\* C15, amended: without an explicit retrieval-strategy, the written
\* front-matter has retrieval-strategy 'always' if the alwaysApply in effect
\* (the cursor block's when the block has the key, the top-level one
\* otherwise) is true, and no retrieval-strategy if it is false, null or
\* absent.
C15_InheritEffective ==
  (CursorHandled /\ NotGiven(lastResult.payload.frontMatter, "retrieval-strategy"))
    => LET alwaysApply ==
             Effective(lastResult.payload.frontMatter, "cursor", "alwaysApply")
       IN /\ alwaysApply = True
               => /\ "retrieval-strategy" \in DOMAIN Written
                  /\ Written["retrieval-strategy"] = <<"always">>
          /\ alwaysApply \in {False, Null, Undefined}
               => "retrieval-strategy" \notin DOMAIN Written

\* A rule whose cursor block turns alwaysApply on has been written with
\* retrieval-strategy 'always'.
C15_Witness ==
  /\ CursorHandled
  /\ NotGiven(lastResult.payload.frontMatter, "retrieval-strategy")
  /\ "alwaysApply" \in DOMAIN lastResult.payload.frontMatter
  /\ lastResult.payload.frontMatter["alwaysApply"] = False
  /\ "retrieval-strategy" \in DOMAIN Written
  /\ Written["retrieval-strategy"] = <<"always">>

\* C16: when the cursor block sets retrieval-strategy, the written
\* front-matter has that retrieval-strategy, whatever alwaysApply is.
C16_ExplicitWins ==
  CursorHandled =>
    LET block == BlockOf(lastResult.payload.frontMatter, "cursor")
    IN Present(block, "retrieval-strategy")
         => /\ "retrieval-strategy" \in DOMAIN Written
            /\ Written["retrieval-strategy"] = block["retrieval-strategy"]

\* 'never' in the cursor block with alwaysApply true has been written as
\* 'never'.
C16_Witness ==
  /\ CursorHandled
  /\ Present(BlockOf(lastResult.payload.frontMatter, "cursor"),
             "retrieval-strategy")
  /\ Effective(lastResult.payload.frontMatter, "cursor", "alwaysApply") = True
  /\ Written["retrieval-strategy"] = <<"never">>

\* The value the claim gives a top-level key: the block's when the block
\* has the key too, the top-level one otherwise.
BlockWins(frontMatter, id, key) ==
  IF key \in DOMAIN BlockOf(frontMatter, id)
    THEN BlockOf(frontMatter, id)[key]
    ELSE frontMatter[key]

\* C17: for the cursor provider and the aggregate providers, a key present
\* both at the top level and in the provider's block is used with the
\* block's value, and a key present only at the top level with its top-level
\* value. The value used is the one written to the front-matter of the
\* cursor file (a retrieval-strategy of null is open to inheritance) and the
\* one that makes the heading of an aggregate provider.
C17_BlockWins ==
  LET fm == lastResult.payload.frontMatter
      Value(key) == BlockWins(fm, provId, key)
  IN /\ CursorHandled =>
          \A key \in DOMAIN fm \ {"cursor"} :
            (key = "retrieval-strategy" => Value(key) # Null)
              => /\ key \in DOMAIN Written
                 /\ Written[key] = Value(key)
     /\ AggHandled =>
          /\ ("title" \in DOMAIN fm /\ Value("title") # Null)
               => LastHeader(buffer) = <<"## ">> \o Value("title")
          /\ ( /\ "description" \in DOMAIN fm
               /\ Value("description") # Null
               /\ Effective(fm, provId, "title") \in {Null, Undefined} )
               => LastHeader(buffer) = <<"## ">> \o Value("description")

\* The cursor file of a rule with a description at both levels and globs at
\* the top level only has been written.
C17_Witness ==
  /\ CursorHandled
  /\ "description" \in DOMAIN lastResult.payload.frontMatter
  /\ "description" \in DOMAIN BlockOf(lastResult.payload.frontMatter, "cursor")
  /\ "globs" \in DOMAIN lastResult.payload.frontMatter
  /\ "globs" \notin DOMAIN BlockOf(lastResult.payload.frontMatter, "cursor")
  /\ Written["description"] = <<"BD">>
  /\ Written["globs"] = <<"*.ts">>

\* handle() of cline or windsurf has just settled.
MirrorHandled == provId \in MirrorIds /\ lastResult.op = "handle"

\* C18: after init(), handle() of cline and windsurf succeeds for every
\* discovered relative file name, one inside a subdirectory included, and
\* writes at the same relative path of the output directory a file holding
\* the body with its leading whitespace stripped (and its final newline) and
\* none of the front-matter.
C18_MirrorWrites ==
  MirrorHandled =>
    LET payload == lastResult.payload
    IN /\ lastResult.ok
       /\ payload.filename \in DOMAIN outDir.files
       /\ outDir.files[payload.filename] =
            Doc(EmptyMap, StrTrimStart(payload.content) \o <<"\n">>)

\* ---------------------------------------------------------------------------
\* loadProviders (provider-loader.js) and its call in main (index.js).
\* ---------------------------------------------------------------------------

\* Longest options.providers and options.provider lists.
MaxSelected == 2
MaxCustom == 2

\* The sequences over a set up to a length.
SeqsUpTo(S, n) == UNION {[1..k -> S] : k \in 0..n}

\* Ids that --providers can name: the built-in ones and one that no
\* provider has.
SelectableIds == {"cursor", "cline", "claude", "nope"}

\* The files --provider can name.
CustomPaths == {"./my-provider.js", "./cursor-clone.js", "./missing.js"}

\* Values of --output: not given, an absolute path, a relative path.
OutputDirs == {Undefined, <<"/", "tmp", "/", "out">>, <<"out">>}

\* process.cwd()
Cwd == <<"/", "work">>

\* path.resolve(base, target): a relative base is taken from the working
\* directory.
PathResolve(base, target) ==
  IF base = <<".">> THEN Cwd \o <<"/">> \o target
  ELSE IF Head(base) = "/" THEN base \o <<"/">> \o target
  ELSE Cwd \o <<"/">> \o base \o <<"/">> \o target

\* The constructors: path.resolve(baseOutputDir ?? ".", ...); ClaudeProvider
\* has no parameter and resolves "CLAUDE.md" alone.
OutPath(id, baseOutputDir) ==
  LET base == IF baseOutputDir \in {Undefined, Null}
                THEN <<".">> ELSE baseOutputDir
  IN CASE id = "cursor" -> PathResolve(base, <<".cursor/rules">>)
       [] id = "cline" -> PathResolve(base, <<".clinerules">>)
       [] id = "windsurf" -> PathResolve(base, <<".windsurf/rules">>)
       [] id = "replit" -> PathResolve(base, <<"replit.md">>)
       [] id = "openai" -> PathResolve(base, <<"AGENTS.md">>)
       [] id = "claude" -> PathResolve(<<".">>, <<"CLAUDE.md">>)
       [] OTHER -> PathResolve(<<".">>, <<id>>)

\* new XProvider(baseOutputDir)
NewProvider(id, baseOutputDir, builtin) ==
  [id |-> id, out |-> OutPath(id, baseOutputDir), builtin |-> builtin]

\* getBuiltinProviders(): the constructors are called without argument.
GetBuiltinProviders ==
  << NewProvider("cursor", Undefined, TRUE),
     NewProvider("cline", Undefined, TRUE),
     NewProvider("claude", Undefined, TRUE) >>

\* Variant of FilterProvidersByIds: an id no provider has is passed over.
FilterProvidersByIds_SkipUnknown(provs, ids) ==
  [ok |-> TRUE,
   filtered |-> SelectSeq([i \in 1..Len(ids) |->
                             IF \E j \in 1..Len(provs) : provs[j].id = ids[i]
                               THEN provs[CHOOSE j \in 1..Len(provs) :
                                            provs[j].id = ids[i]]
                               ELSE NewProvider("", Undefined, TRUE)],
                          LAMBDA q : q.id # "")]

\* filterProvidersByIds(providers, ids): throws at the first id no provider
\* has.
FilterProvidersByIds(provs, ids) ==
  IF \E i \in 1..Len(ids) : \A j \in 1..Len(provs) : provs[j].id # ids[i]
    THEN [ok |-> FALSE, filtered |-> <<>>]
    ELSE [ok |-> TRUE,
          filtered |-> [i \in 1..Len(ids) |->
                          provs[CHOOSE j \in 1..Len(provs) :
                                  provs[j].id = ids[i]]]]

\* loadCustomProvider(providerPath): new ProviderClass(), or an error.
LoadCustomProvider(providerPath) ==
  CASE providerPath = "./my-provider.js" ->
         [ok |-> TRUE, provider |-> NewProvider("my", Undefined, FALSE)]
    [] providerPath = "./cursor-clone.js" ->
         [ok |-> TRUE, provider |-> NewProvider("cursor", Undefined, FALSE)]
    [] OTHER ->
         [ok |-> FALSE, provider |-> NewProvider("", Undefined, FALSE)]

\* loadProviders: the built-in providers, filtered by options.providers.
LoadBuiltin ==
  /\ loadPc = "builtin"
  /\ IF options.builtin # FALSE
       THEN IF Len(options.providers) > 0
              THEN LET res == FilterProvidersByIds(GetBuiltinProviders,
                                                   options.providers)
                   IN IF res.ok
                        THEN /\ loaded' = res.filtered
                             /\ loadPc' = "custom"
                             /\ loadError' = loadError
                        ELSE /\ loaded' = loaded
                             /\ loadPc' = "failed"
                             /\ loadError' = <<"Unknown provider ID">>
              ELSE /\ loaded' = GetBuiltinProviders
                   /\ loadPc' = "custom"
                   /\ loadError' = loadError
       ELSE UNCHANGED <<loaded, loadError>> /\ loadPc' = "custom"
  /\ UNCHANGED <<buildVars, provVars, cleanVars, cfgVars, options, customIdx>>

\* loadProviders: one turn of the loop over options.provider.
LoadCustom ==
  /\ loadPc = "custom"
  /\ customIdx < Len(options.provider)
  /\ customIdx' = customIdx + 1
  /\ LET res == LoadCustomProvider(options.provider[customIdx + 1])
     IN IF ~res.ok
          THEN /\ loadPc' = "failed"
               /\ loadError' = <<"Failed to load custom provider",
                                 "Provider file not found">>
               /\ loaded' = loaded
        ELSE IF \E i \in 1..Len(loaded) : loaded[i].id = res.provider.id
          THEN /\ loadPc' = "failed"
               /\ loadError' = <<"Failed to load custom provider",
                                 "Provider ID conflict">>
               /\ loaded' = loaded
        ELSE /\ loadPc' = loadPc
             /\ loadError' = loadError
             /\ loaded' = Append(loaded, res.provider)
  /\ UNCHANGED <<buildVars, provVars, cleanVars, cfgVars, options>>

\* loadProviders: the end of the loop, the check for an empty list, return.
LoadReturn ==
  /\ loadPc = "custom"
  /\ customIdx = Len(options.provider)
  /\ IF Len(loaded) = 0
       THEN /\ loadPc' = "failed"
            /\ loadError' = <<"No providers specified">>
       ELSE /\ loadPc' = "returned"
            /\ loadError' = loadError
  /\ UNCHANGED <<buildVars, provVars, cleanVars, cfgVars, options, loaded, customIdx>>

\* main: buildRules({ providers, ... }) with the list loadProviders returned.
MainBuildRules ==
  /\ loadPc = "returned"
  /\ loadPc' = "building"
  /\ providers' = [i \in 1..Len(loaded) |-> loaded[i].id]
  /\ pc' = "access"
  /\ UNCHANGED <<provVars, cleanVars, cfgVars, options, loaded, customIdx, loadError,
                 inputDirExists, dryRun, dirFiles, files, fileIdx, raw,
                 pending, settled, initCalls, handleCalls, finishCalls,
                 readFiles, outputs, report, error>>

\* main has the options and calls loadProviders.
LoadInit ==
  /\ BuildIdle
  /\ ProvIdle
  /\ CleanIdle
  /\ CfgIdle
  /\ options \in [builtin : BOOLEAN,
                  providers : SeqsUpTo(SelectableIds, MaxSelected),
                  provider : SeqsUpTo(CustomPaths, MaxCustom),
                  output : OutputDirs]
  /\ loadPc = "builtin"
  /\ loaded = <<>>
  /\ customIdx = 0
  /\ loadError = <<>>

LoadNext ==
  \/ LoadBuiltin
  \/ LoadCustom
  \/ LoadReturn
  \/ MainBuildRules

LoadSpec == LoadInit /\ [][LoadNext]_vars

\* ---------------------------------------------------------------------------
\* Properties of loadProviders.
\* ---------------------------------------------------------------------------

\* options.providers names an id that no available provider has.
NamesUnknownId ==
  \E i \in 1..Len(options.providers) :
    \A j \in 1..Len(GetBuiltinProviders) :
      GetBuiltinProviders[j].id # options.providers[i]

\* loadProviders has rejected with 'Unknown provider ID'; buildRules is not
\* entered and no lifecycle call is made.
UnknownIdFailure ==
  /\ loadPc = "failed"
  /\ loadError = <<"Unknown provider ID">>
  /\ pc = "idle"
  /\ NoLifecycleCall

\* C19 as stated: whenever options.providers names an id no available
\* provider has, loadProviders fails with 'Unknown provider ID', whatever the
\* other options are, and no lifecycle call is made.
C19_UnknownIdAlways ==
  (loadPc # "builtin" /\ NamesUnknownId) => UnknownIdFailure

\* C19, amended: the same whenever the built-in providers are enabled.
C19_UnknownIdBuiltin ==
  (loadPc # "builtin" /\ NamesUnknownId /\ options.builtin # FALSE)
    => UnknownIdFailure

\* A list of a known and an unknown id, with custom providers and an output
\* directory given, has been rejected.
C19_Witness ==
  /\ UnknownIdFailure
  /\ options.builtin
  /\ options.providers = <<"cursor", "nope">>
  /\ options.provider = <<"./my-provider.js">>
  /\ options.output # Undefined

\* The directory options.output names.
OutputBase ==
  IF Head(options.output) = "/" THEN options.output
  ELSE Cwd \o <<"/">> \o options.output

\* A path lies under a directory.
Under(path, dir) ==
  /\ Len(path) > Len(dir) + 1
  /\ SubSeq(path, 1, Len(dir)) = dir
  /\ path[Len(dir) + 1] = "/"

\* C20: when options.output is given, every built-in provider returned by
\* loadProviders writes under that directory.
C20_OutputBase ==
  (loadPc \in {"returned", "building"} /\ options.output # Undefined)
    => \A i \in 1..Len(loaded) :
         loaded[i].builtin => Under(loaded[i].out, OutputBase)

\* loadProviders has returned its list.
LoadReturned == loadPc \in {"returned", "building"}

\* C21: the list loadProviders returns never holds two entries with the same
\* id, whatever options.providers and options.provider are.
C21_UniqueIds ==
  LoadReturned =>
    \A i, j \in 1..Len(loaded) : loaded[i].id = loaded[j].id => i = j

\* ---------------------------------------------------------------------------
\* cleanFrontMatter (stripDirectives): imported from utils.js by
\* providerFiltering.test.js; written here from its specification.
\* ---------------------------------------------------------------------------

\* Number of successive applications.
MaxCleans == 2

\* A mapping with the key, for each of the values, and one without it.
Opt(key, values) == {EmptyMap} \cup {key :> v : v \in values}

\* Front-matter mappings given to cleanFrontMatter: with and without each
\* directive, other keys, and a cursor block (one of them holding a
\* directive key of its own).
CleanInputs ==
  { a @@ b @@ c @@ d @@ e :
      a \in Opt("description", {<<"D">>}),
      b \in Opt(IncludeKey, {<<"cursor">>, <<"cursor", ",", "cline">>}),
      c \in Opt(ExcludeKey, {<<"claude">>}),
      d \in Opt("cursor", {"alwaysApply" :> True, IncludeKey :> <<"cline">>}),
      e \in Opt("globs", {<<"*.ts">>}) }

\* Variant of CleanFrontMatter: only the include directive is removed.
CleanFrontMatter_IncludeOnly(frontMatter) ==
  [k \in DOMAIN frontMatter \ {IncludeKey} |-> frontMatter[k]]

\* cleanFrontMatter(frontMatter): a copy without the two directive keys.
CleanFrontMatter(frontMatter) ==
  [k \in DOMAIN frontMatter \ {IncludeKey, ExcludeKey} |-> frontMatter[k]]

\* cleanFrontMatter is called: first on the mapping, then on its result.
CleanCall ==
  /\ Len(cleaned) < MaxCleans
  /\ LET input == IF cleaned = <<>> THEN cleanObj ELSE cleaned[Len(cleaned)]
     IN cleaned' = Append(cleaned, CleanFrontMatter(input))
  /\ cleanObj' = cleanObj
  /\ UNCHANGED <<buildVars, provVars, loadVars, cfgVars, cleanArg>>

\* A front-matter mapping is at hand.
CleanInit ==
  /\ BuildIdle
  /\ ProvIdle
  /\ LoadIdle
  /\ CfgIdle
  /\ cleanArg \in CleanInputs
  /\ cleanObj = cleanArg
  /\ cleaned = <<>>

CleanNext == CleanCall

CleanSpec == CleanInit /\ [][CleanNext]_vars

\* C22: stripping the directives is idempotent and removes only
\* _includeOnlyForProviders and _excludeForProviders: every other key, a
\* nested provider block included, is kept with its value, and the mapping
\* passed in is not changed.
C22_StripIdempotent ==
  /\ cleanObj = cleanArg
  /\ \A i \in 1..Len(cleaned) :
       /\ DOMAIN cleaned[i] = DOMAIN cleanArg \ {IncludeKey, ExcludeKey}
       /\ \A k \in DOMAIN cleaned[i] : cleaned[i][k] = cleanArg[k]
       /\ cleaned[i] = cleaned[1]

\* A mapping with both directives, a description and a cursor block that
\* holds a directive key has been stripped twice.
C22_Witness ==
  /\ Len(cleaned) = 2
  /\ {IncludeKey, ExcludeKey, "description", "cursor"} \subseteq DOMAIN cleanArg
  /\ IncludeKey \in DOMAIN cleanArg["cursor"]
  /\ DOMAIN cleaned[2] = DOMAIN cleanArg \ {IncludeKey, ExcludeKey}
  /\ IncludeKey \in DOMAIN cleaned[2]["cursor"]

\* ---------------------------------------------------------------------------
\* main: parseArgs, loadConfig and the merge of the two (index.js, cli.js).
\* ---------------------------------------------------------------------------

\* The options a user can pass, each given or not; --config names a file
\* that can be read or one that cannot.
ArgvSets ==
  { a @@ b @@ c @@ d @@ e @@ f :
      a \in Opt("input", {<<"./cli-rules">>}),
      b \in Opt("filter", {<<"**/*.md">>}),
      c \in Opt("provider", {<<"./cli-provider.js">>}),
      d \in Opt("providers", {<<"cursor">>}),
      e \in Opt("verbose", {True}),
      f \in Opt("config", {<<"./config.json">>, <<"./missing.json">>}) }

\* The settings a config file can hold (CLI_GUIDE.md, Configuration File
\* Format).
ConfigFiles ==
  { a @@ b @@ c @@ d @@ e :
      a \in Opt("input", {<<"./my-rules">>}),
      b \in Opt("filter", {<<"*.mdx">>}),
      c \in Opt("provider", {<<"./providers/custom1.js">>}),
      d \in Opt("providers", {<<"cursor", ",", "cline">>}),
      e \in Opt("verbose", {True}) }

\* The default values commander gives the options that declare one.
OptionDefaults ==
  ("provider" :> EmptyList) @@ ("builtin" :> True)
    @@ ("input" :> <<"agent-rules">>) @@ ("filter" :> <<"*.md">>)
    @@ ("parallel" :> <<"4">>)

\* parseArgs(): program.opts(), the values passed over the defaults.
ParseArgs(args) == args @@ OptionDefaults

\* loadConfig(configPath): the parsed file, or an error.
LoadConfig(configPath, file) ==
  IF configPath = <<"./missing.json">>
    THEN [ok |-> FALSE, config |-> EmptyMap]
    ELSE [ok |-> TRUE, config |-> file]

\* const options = parseArgs(); let finalOptions = options;
MainParseArgs ==
  /\ cfgPc = "start"
  /\ finalOptions' = ParseArgs(argv)
  /\ cfgPc' = "parsed"
  /\ UNCHANGED <<buildVars, provVars, loadVars, cleanVars, argv, configFile>>

\* if (options.config) { finalOptions = { ...configOptions, ...options } }
MainLoadConfig ==
  /\ cfgPc = "parsed"
  /\ IF "config" \in DOMAIN finalOptions
       THEN LET res == LoadConfig(finalOptions["config"], configFile)
            IN IF res.ok
                 THEN /\ finalOptions' = finalOptions @@ res.config
                      /\ cfgPc' = "resolved"
                 ELSE /\ finalOptions' = finalOptions
                      /\ cfgPc' = "failed"
       ELSE /\ finalOptions' = finalOptions
            /\ cfgPc' = "resolved"
  /\ UNCHANGED <<buildVars, provVars, loadVars, cleanVars, argv, configFile>>

\* main is started with a command line; a config file is on disk.
CfgInit ==
  /\ BuildIdle
  /\ ProvIdle
  /\ LoadIdle
  /\ CleanIdle
  /\ argv \in ArgvSets
  /\ configFile \in ConfigFiles
  /\ finalOptions = EmptyMap
  /\ cfgPc = "start"

CfgNext ==
  \/ MainParseArgs
  \/ MainLoadConfig

CfgSpec == CfgInit /\ [][CfgNext]_vars

\* The options are resolved and the config file was loaded.
ConfigLoaded == cfgPc = "resolved" /\ "config" \in DOMAIN argv

\* C23: with a config file loaded, each option has the command-line value
\* when the user passed it, and otherwise the config file's value when the
\* file sets it; input, filter and provider among them.
C23_CliOverConfig ==
  ConfigLoaded =>
    \A key \in {"input", "filter", "provider", "providers", "verbose"} :
      IF key \in DOMAIN argv
        THEN key \in DOMAIN finalOptions /\ finalOptions[key] = argv[key]
      ELSE key \in DOMAIN configFile
             => /\ key \in DOMAIN finalOptions
                /\ finalOptions[key] = configFile[key]

\* ---------------------------------------------------------------------------
\* Further properties of the providers.
\* ---------------------------------------------------------------------------

\* init() of an aggregate provider has just returned.
AggInited == provId \in AggregateIds /\ lastResult.op = "init"

\* C24: after init() of an aggregate provider the output file is removed and
\* the buffer is empty, whatever handle() calls the instance received
\* before; init() followed directly by finish() writes a single newline.
C24_InitResets ==
  /\ AggInited => (~outFile.exists /\ buffer = <<>>)
  /\ (AggFinished /\ runCalls = <<>>) => outFile.content = <<"\n">>

\* C25: in the output file of an aggregate provider, every section after
\* the first is separated from the end of the body before it by exactly one
\* blank line.
C25_OneBlankLine ==
  (AggFinished /\ provInits = 1) =>
    LET lines == SplitLines(outFile.content)
    IN \A k \in 2..Len(runCalls) :
         StrTrim(runCalls[k - 1].content) # <<>>
           => LET h == NthHeader(lines, k)
              IN /\ lines[h - 1] = <<>>
                 /\ lines[h - 2] # <<>>

\* ---------------------------------------------------------------------------
\* Further properties of buildRules.
\* ---------------------------------------------------------------------------

\* The calls of an operation in flight on a provider.
InFlight(op, p) == {c \in pending : c.op = op /\ c.id = p}

\* C26: in a run over pairwise distinct providers, no provider has two of
\* its handle() calls in flight at the same time, nor a handle() call in
\* flight while its init() or its finish() is in flight.
C26_NoSelfOverlap ==
  \A p \in AllIds :
    /\ Cardinality(InFlight("handle", p)) <= 1
    /\ InFlight("handle", p) # {}
         => InFlight("init", p) = {} /\ InFlight("finish", p) = {}

\* handle() of the second file is in flight on two providers at once, each
\* of them with this one call only.
C26_Witness ==
  /\ pc = "handle_wait"
  /\ fileIdx = 2
  /\ Len(providers) = 2
  /\ \A p \in Active : Cardinality(InFlight("handle", p)) = 1
  /\ Cardinality(pending) = 2

\* buildRules has returned or rejected.
Terminated == pc \in {"done", "failed"}

\* No lifecycle step is made twice: one init() and one finish() at most per
\* provider, one handle() at most per provider and file.
NoRepeat ==
  \A p \in AllIds :
    /\ initCalls[p] <= 1
    /\ finishCalls[p] <= 1
    /\ \A i, j \in 1..Len(handleCalls[p]) :
         handleCalls[p][i].filename = handleCalls[p][j].filename => i = j

\* A call in flight stays in flight until it settles: none is cancelled.
NoCancel ==
  [][\A c \in pending \ pending' :
       \E ok \in BOOLEAN : Outcome(c, ok) \in settled']_vars

\* C27: every run of buildRules terminates, returning or rejecting, when
\* every call and read settles; no lifecycle step is retried, cancelled or
\* repeated.
C27_Terminates == <>Terminated /\ []NoRepeat /\ NoCancel

\* A run over two files has returned with every call settled.
C27_Witness ==
  /\ pc = "done"
  /\ Len(files) = 2
  /\ providers # <<>>
  /\ pending = {}
  /\ \A p \in Active : finishCalls[p] = 1 /\ Len(handleCalls[p]) = 2

\* C28: the files are processed one after another in discovery order: no
\* handle() of a file is issued while a handle() of the file before it is
\* in flight, and every provider receives its handle() calls in discovery
\* order.
C28_DiscoveryOrder ==
  /\ pc \in {"read", "dispatch"} => \A c \in pending : c.op # "handle"
  /\ \A c, d \in pending :
       (c.op = "handle" /\ d.op = "handle") => c.filename = d.filename
  /\ \A p \in Active :
       /\ Len(handleCalls[p]) <= Len(dirFiles)
       /\ \A k \in 1..Len(handleCalls[p]) :
            handleCalls[p][k].filename = dirFiles[k].filename

\* Both files have been handed to a provider, the second one after the
\* first had settled.
C28_Witness ==
  /\ pc = "handle_wait"
  /\ fileIdx = 2
  /\ providers # <<>>
  /\ \A p \in Active :
       /\ Len(handleCalls[p]) = 2
       /\ Outcome(Call("handle", p, dirFiles[1].filename), TRUE) \in settled
       /\ Call("handle", p, dirFiles[2].filename) \in pending

\* ---------------------------------------------------------------------------
\* Further properties of the providers.
\* ---------------------------------------------------------------------------

\* The run of buildRules a record describes has ended on this provider:
\* finish() has returned, or a handle() has failed and the run was abandoned.
RunEnded(run) == run.finished \/ ~run.ok

\* The calls the provider instance received since its last init().
ThisRun ==
  [calls |-> runCalls, finished |-> provPc = "finished", ok |-> runOk,
   outFile |-> outFile, outDir |-> outDir]

\* The provider instance has been taken through two runs on the same rule
\* files, one after the other.
RanTwice ==
  /\ provInits = 2
  /\ RunEnded(prevRun)
  /\ RunEnded(ThisRun)
  /\ prevRun.calls = runCalls

\* C29: two runs in succession on the same rule files with the same provider
\* both succeed, and the second leaves the output files and their contents
\* that the first one left.
C29_RunTwice ==
  RanTwice => /\ prevRun.ok
              /\ runOk
              /\ outFile = prevRun.outFile
              /\ outDir = prevRun.outDir

\* C30: the front-matter the cursor provider writes for a rule has
\* description, globs and alwaysApply, none of them null; when the rule gives
\* no value for the key (absent or null), description is the file name
\* without its extension, globs the empty list and alwaysApply false.
C30_NonNullDefaults ==
  CursorHandled =>
    LET fm == lastResult.payload.frontMatter
        NoValue(key) == Effective(fm, "cursor", key) \in {Null, Undefined}
    IN /\ {"description", "globs", "alwaysApply"} \subseteq DOMAIN Written
       /\ \A key \in {"description", "globs", "alwaysApply"} :
            Written[key] \notin {Null, Undefined}
       /\ NoValue("description")
            => Written["description"] = PathName(lastResult.payload.filename)
       /\ NoValue("globs") => Written["globs"] = EmptyList
       /\ NoValue("alwaysApply") => Written["alwaysApply"] = False

====
